---- MODULE Spec2Model ----
(***************************************************************************)
(* Model of the activity tracker (src/src/main.rs): the egui frame handler *)
(* ActivityTracker::update, the sampler threads it spawns, the shared log  *)
(* behind Arc<Mutex<Vec<ActivityRecord>>> and the CSV writer               *)
(* ActivityTracker::save_activity_data.                                    *)
(*                                                                         *)
(* Time is counted in whole seconds (Duration::as_secs, the u64 timestamp  *)
(* of a record).  Strings the program builds (file names, CSV rows) are    *)
(* sequences of one-character strings.                                     *)
(***************************************************************************)
EXTENDS Integers, Sequences, FiniteSets

\* ---------------------------------------------------------------- bounds
\* accepted starts explored (one sampler thread and one log each)
MaxSessions == 2
\* last second of the clock explored
MaxClock == 6
\* records one log may hold in the explored runs
MaxLog == 2
\* the CSV specification's inputs: records per log, the second its session
\* started in, and the seconds its sampler has been running
MaxCsvLen == 2
CsvStart == 94
MaxCsvTime == 1

\* ------------------------------------------------------- program constants
\* Duration::from_secs(5) of the sampler, `>= 5`, `< 5` and `5 - elapsed`
DelaySecs == 5

VARIABLES
    task_name,          \* ActivityTracker.task_name
    status,             \* ActivityTracker.status
    recording,          \* ActivityTracker.recording
    start_time,         \* ActivityTracker.start_time: <<>> is None, <<t>> is Some(t)
    activity_data,      \* ActivityTracker.activity_data: which log the Arc points at
    timer_complete,     \* ActivityTracker.timer_complete
    permission_checked, \* ActivityTracker.permission_checked
    is_macos,           \* ActivityTracker.is_macos
    logs,               \* the Vec<ActivityRecord> behind every Arc ever made
    lock,               \* the Mutex of every log: "free", or "ui" while the writer holds it
    sampler,            \* the threads spawned by thread::spawn, by spawn order
    ui_pc,              \* where the UI thread is inside update()
    first_frame,        \* no frame has been drawn yet
    clock,              \* Instant::now() / SystemTime::now(), in seconds
    files,              \* every File::create that succeeded, in order
    clicked,            \* the button shown in the current frame was clicked
    branch,             \* which branch of the button code the current frame took
    outcome,            \* what save_activity_data did in the current frame
    writers,            \* per log, the samplers that have pushed to it
    save_calls,         \* per session (0: before the first), the calls of save_activity_data
    repaint,            \* ctx.request_repaint() was called and no frame has run since
    session_name        \* task_name as it was when the last "Create Task" was accepted

vars == <<task_name, status, recording, start_time, activity_data, timer_complete,
          permission_checked, is_macos, logs, lock, sampler, ui_pc, first_frame,
          clock, files, clicked, branch, outcome, writers, save_calls, repaint,
          session_name>>

\* ------------------------------------------------------------ status texts
MsgMacNote == "Note: On macOS, you may need to grant permission for input monitoring in System Preferences"
MsgPreparing == "Preparing to record (5 second countdown)..."
MsgCompleted == "Recording completed and saved to Downloads folder."
MsgNotReady == "Please wait for timer to complete."
MsgCountdown == "Recording will start in {} seconds..."
MsgInProgress == "Recording in progress..."
MsgNoData == "No activity data recorded."
MsgSaved == "Activity data saved to {}"
MsgSavedMac == "Activity data saved to {}\nNote: On macOS, you may need to look in ~/Downloads"
MsgNoFile == "Failed to create output file."
MsgNoDir == "Could not find Downloads directory."

\* a status string: the text, and the value format! put in its {} (if any)
Text(m) == [msg |-> m, n |-> 0, path |-> <<>>]
CountdownText(k) == [msg |-> MsgCountdown, n |-> k, path |-> <<>>]
SavedText(mac, p) == [msg |-> IF mac THEN MsgSavedMac ELSE MsgSaved, n |-> 0, path |-> p]

\* ------------------------------------------------------------------ inputs
\* what the text field can hold after a frame's edit
TaskNames == {<<>>, <<"a", " ", "b">>}
\* Keycode values, by their Debug names
KeyA == <<"A">>
KeyLShift == <<"L", "S", "h", "i", "f", "t">>
\* what DeviceState::get_mouse / get_keys can return in the explored runs
DeviceReadings == {[x |-> 0, y |-> 0, keys |-> <<>>],
                   [x |-> -3, y |-> 12, keys |-> <<KeyLShift, KeyA>>]}

LogIds == 0..MaxSessions
SamplerIds == 1..MaxSessions

\* --------------------------------------------------------------- helpers
\* ActivityRecord { timestamp, mouse_x, mouse_y, keys_pressed }
ActivityRecord(t, reading) ==
    [timestamp |-> t, mouse_x |-> reading.x, mouse_y |-> reading.y,
     keys_pressed |-> reading.keys]

NoRecord == [timestamp |-> 0, mouse_x |-> 0, mouse_y |-> 0, keys_pressed |-> <<>>]

\* start_time.elapsed().as_secs()
Elapsed(st, now) == IF now >= st[1] THEN now - st[1] ELSE 0

\* the threads spawned so far
Spawned == {i \in SamplerIds : sampler[i].pc # "none"}

\* ------------------------------------------------- strings the program builds
DigitChars == <<"0", "1", "2", "3", "4", "5", "6", "7", "8", "9">>

\* format!("{}", n) of an unsigned integer
RECURSIVE Dec(_)
Dec(n) == IF n < 10 THEN <<DigitChars[n + 1]>>
          ELSE Dec(n \div 10) \o <<DigitChars[(n % 10) + 1]>>

\* format!("{}", v) of an i32
FormatI32(v) == IF v < 0 THEN <<"-">> \o Dec(0 - v) ELSE Dec(v)

\* .collect::<Vec<String>>().join(sep)
RECURSIVE Join(_, _)
Join(strs, sep) ==
    IF strs = <<>> THEN <<>>
    ELSE IF Len(strs) = 1 THEN strs[1]
    ELSE strs[1] \o sep \o Join(Tail(strs), sep)

\* the key names joined without a separator
KeysStrNoSeparator(keys) == Join(keys, <<>>)

\* record.keys_pressed.iter().map(|k| format!("{:?}", k)).collect().join("+")
KeysStr(keys) == Join(keys, <<"+">>)

\* the text of writeln!(file, "{},{},{},\"{}\"", ...), without its newline
FormatRow(r) ==
    Dec(r.timestamp) \o <<",">> \o FormatI32(r.mouse_x) \o <<",">>
        \o FormatI32(r.mouse_y) \o <<",", "\"">> \o KeysStr(r.keys_pressed) \o <<"\"">>

\* the text of writeln!(file, "timestamp,mouse_x,mouse_y,keys_pressed")
CsvHeader == <<"t", "i", "m", "e", "s", "t", "a", "m", "p", ",", "m", "o", "u", "s", "e", "_", "x", ",", "m", "o", "u", "s", "e", "_", "y", ",", "k", "e", "y", "s", "_", "p", "r", "e", "s", "s", "e", "d">>

\* the lines of the file: the header, then one line per record of data.iter()
CsvLines(data) == <<CsvHeader>> \o [i \in 1..Len(data) |-> FormatRow(data[i])]

\* self.task_name.replace(' ', "_")
Sanitize(name) == [i \in 1..Len(name) |-> IF name[i] = " " THEN "_" ELSE name[i]]

\* format!("{}_{}.csv", sanitized_task_name, timestamp)
Filename(name, t) == Sanitize(name) \o <<"_">> \o Dec(t) \o <<".", "c", "s", "v">>

\* what dirs::download_dir() resolves to when it resolves
DownloadDir == <<"/", "D">>

\* [download_dir.as_path(), Path::new(&filename)].iter().collect()
FilePath(dir, filename) == dir \o <<"/">> \o filename

\* ------------------------------------------------------------------- Init
\* ActivityTracker::new: Default::default() with is_macos set by the target
Init ==
    /\ task_name = <<>>
    /\ status = Text("")
    /\ recording = FALSE
    /\ start_time = <<>>
    /\ activity_data = 0
    /\ timer_complete = FALSE
    /\ permission_checked = FALSE
    /\ is_macos \in BOOLEAN
    /\ logs = [l \in LogIds |-> <<>>]
    /\ lock = [l \in LogIds |-> "free"]
    /\ sampler = [i \in SamplerIds |->
                    [pc |-> "none", log |-> 0, wake |-> 0, record |-> NoRecord]]
    /\ ui_pc = "idle"
    /\ first_frame = TRUE
    /\ clock = 0
    /\ files = <<>>
    /\ clicked = FALSE
    /\ branch = "none"
    /\ outcome = "none"
    /\ writers = [l \in LogIds |-> {}]
    /\ save_calls = [k \in 0..MaxSessions |-> 0]
    /\ repaint = FALSE
    /\ session_name = <<>>

\* ------------------------------------------------- update(): the button code
\* `if !self.permission_checked && self.is_macos`
PermissionNoteDue == ~permission_checked /\ is_macos

\* a button that offers "Create Task" whatever self.recording is
ShowsCreateAlways == TRUE

\* `if !self.recording`: the button is "Create Task", not "End Task"
ShowsCreate == ~recording

\* the start check without `!self.task_name.is_empty()`
StartAcceptedAnyName(click, name) == click

\* `ui.button("Create Task").clicked() && !self.task_name.is_empty()`
StartAccepted(click, name) == click /\ name # <<>>

\* the stop check one second early
StopHonouredEarly(st, now) == Elapsed(st, now) >= DelaySecs - 1

\* the stop check one second late
StopHonouredLate(st, now) == Elapsed(st, now) > DelaySecs

\* `start_time.elapsed().as_secs() >= 5`
StopHonoured(st, now) == Elapsed(st, now) >= DelaySecs

\* a start that keeps the Arc it has instead of making a new one
NewLogKept(k) == activity_data

\* `self.activity_data = Arc::new(Mutex::new(Vec::new()))`: the Arc now points
\* at a log no earlier session has used (the k-th start makes log k)
NewLog(k) == k

\* a closure that samples without the initial sleep
FirstWakeNoDelay(now) == now

\* the closure's `thread::sleep(Duration::from_secs(5))`: earliest wake-up
FirstWake(now) == now + DelaySecs

\* the assignments of an accepted "Create Task", and the thread it spawns
StartSession ==
    LET k == Cardinality(Spawned) + 1
        log == NewLog(k)
    IN  /\ status' = Text(MsgPreparing)
        /\ start_time' = <<clock>>
        /\ recording' = TRUE
        /\ timer_complete' = FALSE
        /\ activity_data' = log
        /\ sampler' = [sampler EXCEPT ![k] =
               [pc |-> "sleep", log |-> log, wake |-> FirstWake(clock),
                record |-> NoRecord]]
        /\ ui_pc' = "timer"
        /\ branch' = "started"

\* lines 37-110 of a frame: the permission note, the text field, the button.
\* name is the text field's content after this frame's edits, click whether
\* the button shown in this frame was clicked.  The first frame has no input:
\* egui reports a click or an edit only for a widget it has already drawn.
\* An accepted start is explored while fewer than MaxSessions threads exist.
BeginFrame(name, click) ==
    /\ ui_pc = "idle"
    /\ first_frame => (name = task_name /\ ~click)
    /\ (ShowsCreate /\ StartAccepted(click, name)) => Cardinality(Spawned) < MaxSessions
    /\ permission_checked' = (permission_checked \/ PermissionNoteDue)
    /\ task_name' = name
    /\ LET noted == IF PermissionNoteDue THEN Text(MsgMacNote) ELSE status
       IN  IF ShowsCreate
           THEN IF StartAccepted(click, name)
                THEN StartSession /\ session_name' = name
                ELSE /\ status' = noted
                     /\ branch' = "none"
                     /\ ui_pc' = "timer"
                     /\ UNCHANGED <<start_time, recording, timer_complete,
                                    activity_data, sampler, session_name>>
           ELSE IF click /\ start_time # <<>>
                THEN IF StopHonoured(start_time, clock)
                     THEN /\ status' = noted
                          /\ branch' = "honoured"
                          /\ ui_pc' = "save_lock"
                          /\ UNCHANGED <<start_time, recording, timer_complete,
                                         activity_data, sampler, session_name>>
                     ELSE /\ status' = Text(MsgNotReady)
                          /\ branch' = "premature"
                          /\ ui_pc' = "timer"
                          /\ UNCHANGED <<start_time, recording, timer_complete,
                                         activity_data, sampler, session_name>>
                ELSE /\ status' = noted
                     /\ branch' = "none"
                     /\ ui_pc' = "timer"
                     /\ UNCHANGED <<start_time, recording, timer_complete,
                                    activity_data, sampler, session_name>>
    /\ clicked' = click
    /\ outcome' = "none"
    /\ repaint' = FALSE
    /\ UNCHANGED <<is_macos, logs, lock, first_frame, clock, files, writers, save_calls>>

\* ------------------------------------------------------ save_activity_data
\* `if let Ok(data) = self.activity_data.lock()`: blocks until the mutex is free
SaveLock ==
    /\ ui_pc = "save_lock"
    /\ lock[activity_data] = "free"
    /\ lock' = [lock EXCEPT ![activity_data] = "ui"]
    /\ save_calls' = [save_calls EXCEPT ![Cardinality(Spawned)] = @ + 1]
    /\ ui_pc' = "save_io"
    /\ UNCHANGED <<task_name, status, recording, start_time, activity_data,
                   timer_complete, permission_checked, is_macos, logs, sampler,
                   first_frame, clock, files, clicked, branch, outcome, writers,
                   repaint, session_name>>

\* a writer without the `data.is_empty()` check
SaveOutcomeNoEmptyCheck(data, dir_ok, create_ok) ==
    IF ~dir_ok THEN "nodir"
    ELSE IF ~create_ok THEN "nofile"
    ELSE "written"

\* what save_activity_data does with the guard held: "empty", "nodir",
\* "nofile" or "written"
SaveOutcome(data, dir_ok, create_ok) ==
    IF data = <<>> THEN "empty"
    ELSE IF ~dir_ok THEN "nodir"
    ELSE IF ~create_ok THEN "nofile"
    ELSE "written"

\* self.status as save_activity_data leaves it
SaveStatus(out, path) ==
    IF out = "empty" THEN Text(MsgNoData)
    ELSE IF out = "nodir" THEN Text(MsgNoDir)
    ELSE IF out = "nofile" THEN Text(MsgNoFile)
    ELSE SavedText(is_macos, path)

\* self.status after the caller's lines 104-105 have run
StopStatus(saved) == Text(MsgCompleted)

\* a stop that leaves self.recording set
StopRecordingKept == TRUE

\* self.recording after the caller's line 104
StopRecording == FALSE

\* a writer that takes the records out of the log (data.drain(..))
LogDrained(data) == <<>>

\* the log as save_activity_data leaves it: data.is_empty() and data.iter() only
\* read it
LogAfterSave(data) == data

\* the body of save_activity_data under the guard, the guard's drop at the end
\* of the `if let`, and the caller's lines 104-105.  dir_ok: download_dir() is
\* Some; create_ok: File::create is Ok
SaveIO(dir_ok, create_ok) ==
    /\ ui_pc = "save_io"
    /\ LET data == logs[activity_data]
           out == SaveOutcome(data, dir_ok, create_ok)
           path == FilePath(DownloadDir, Filename(task_name, clock))
       IN  /\ outcome' = out
           /\ files' = IF out = "written"
                       THEN Append(files, [path |-> path, lines |-> CsvLines(data),
                                           log |-> activity_data,
                                           session |-> Cardinality(Spawned)])
                       ELSE files
           /\ status' = StopStatus(SaveStatus(out, path))
    /\ lock' = [lock EXCEPT ![activity_data] = "free"]
    /\ recording' = StopRecording
    /\ ui_pc' = "timer"
    /\ logs' = [logs EXCEPT ![activity_data] = LogAfterSave(@)]
    /\ UNCHANGED <<task_name, start_time, activity_data, timer_complete,
                   permission_checked, is_macos, sampler, first_frame, clock,
                   clicked, branch, writers, save_calls, repaint, session_name>>

\* ------------------------------------------- update(): the countdown block
\* the countdown check one second short
CountdownRunningShort(elapsed) == elapsed < DelaySecs - 1

\* the countdown check one second long
CountdownRunningLong(elapsed) == elapsed <= DelaySecs

\* `elapsed < 5`
CountdownRunning(elapsed) == elapsed < DelaySecs

\* a countdown frame that asks for no repaint
RepaintNotRequested(counting) == FALSE

\* `ctx.request_repaint()` of line 123: called in the frames that show the
\* countdown, and in no other
RepaintRequested(counting) == counting

\* lines 116-131: the countdown block, then ui.label(&self.status)
EndFrame ==
    /\ ui_pc = "timer"
    /\ IF recording /\ ~timer_complete /\ start_time # <<>>
       THEN LET elapsed == Elapsed(start_time, clock)
            IN  IF CountdownRunning(elapsed)
                THEN /\ status' = CountdownText(DelaySecs - elapsed)
                     /\ repaint' = RepaintRequested(TRUE)
                     /\ UNCHANGED timer_complete
                ELSE /\ timer_complete' = TRUE
                     /\ status' = Text(MsgInProgress)
                     /\ repaint' = RepaintRequested(FALSE)
       ELSE /\ repaint' = RepaintRequested(FALSE)
            /\ UNCHANGED <<status, timer_complete>>
    /\ ui_pc' = "idle"
    /\ first_frame' = FALSE
    /\ clicked' = FALSE
    /\ branch' = "none"
    /\ outcome' = "none"
    /\ UNCHANGED <<task_name, recording, start_time, activity_data,
                   permission_checked, is_macos, logs, lock, sampler, clock, files,
                   writers, save_calls, session_name>>

\* ------------------------------------------------------- the sampler thread
\* lines 68-87: once the sleep is over (thread::sleep returns no earlier than
\* asked, and as much later as the scheduler likes), read the clock and the
\* devices.  Explored while the thread's log holds fewer than MaxLog records.
SamplerRead(i, reading) ==
    /\ sampler[i].pc = "sleep"
    /\ clock >= sampler[i].wake
    /\ Len(logs[sampler[i].log]) < MaxLog
    /\ sampler' = [sampler EXCEPT ![i].pc = "lock",
                                  ![i].record = ActivityRecord(clock, reading)]
    /\ UNCHANGED <<task_name, status, recording, start_time, activity_data,
                   timer_complete, permission_checked, is_macos, logs, lock, ui_pc,
                   first_frame, clock, files, clicked, branch, outcome, writers,
                   save_calls, repaint, session_name>>

\* a lock() that returns whoever holds the mutex
LockFreeAlways(l) == TRUE

\* `activity_data.lock()` of the closure can return
LockFree(l) == lock[l] = "free"

\* data.insert(0, record)
PushFront(data, record) == <<record>> \o data

\* data.push(record)
Push(data, record) == Append(data, record)

\* lines 89-95: take the lock, data.push(record), drop the guard (one critical
\* section, so one step), then the 100 ms sleep (less than a second: the thread
\* may run again within the same second)
SamplerPush(i) ==
    /\ sampler[i].pc = "lock"
    /\ LockFree(sampler[i].log)
    /\ logs' = [logs EXCEPT ![sampler[i].log] = Push(@, sampler[i].record)]
    /\ writers' = [writers EXCEPT ![sampler[i].log] = @ \cup {i}]
    /\ sampler' = [sampler EXCEPT ![i].pc = "sleep", ![i].wake = clock,
                                  ![i].record = NoRecord]
    /\ UNCHANGED <<task_name, status, recording, start_time, activity_data,
                   timer_complete, permission_checked, is_macos, lock, ui_pc,
                   first_frame, clock, files, clicked, branch, outcome, save_calls,
                   repaint, session_name>>

\* ----------------------------------------------------------------- the clock
\* a second passes (Instant and SystemTime both advance)
Tick ==
    /\ clock < MaxClock
    /\ clock' = clock + 1
    /\ UNCHANGED <<task_name, status, recording, start_time, activity_data,
                   timer_complete, permission_checked, is_macos, logs, lock, sampler,
                   ui_pc, first_frame, files, clicked, branch, outcome, writers,
                   save_calls, repaint, session_name>>

Next ==
    \/ \E name \in TaskNames, click \in BOOLEAN : BeginFrame(name, click)
    \/ SaveLock
    \/ \E dir_ok \in BOOLEAN, create_ok \in BOOLEAN : SaveIO(dir_ok, create_ok)
    \/ EndFrame
    \/ \E i \in SamplerIds, reading \in DeviceReadings : SamplerRead(i, reading)
    \/ \E i \in SamplerIds : SamplerPush(i)
    \/ Tick

Spec == Init /\ [][Next]_vars

\* ------------------------------------------------- frames egui owes the program
\* the frame egui runs because ctx.request_repaint() was called: no click, no
\* edit
RepaintFrame == repaint /\ BeginFrame(task_name, FALSE)

\* a frame, with "Create Task" accepted only while the explored clock can still
\* run DelaySecs further
LiveBeginFrame(name, click) ==
    /\ (ShowsCreate /\ StartAccepted(click, name)) => clock + DelaySecs <= MaxClock
    /\ BeginFrame(name, click)

LiveNext ==
    \/ \E name \in TaskNames, click \in BOOLEAN : LiveBeginFrame(name, click)
    \/ SaveLock
    \/ \E dir_ok \in BOOLEAN, create_ok \in BOOLEAN : SaveIO(dir_ok, create_ok)
    \/ EndFrame
    \/ \E i \in SamplerIds, reading \in DeviceReadings : SamplerRead(i, reading)
    \/ \E i \in SamplerIds : SamplerPush(i)
    \/ Tick

\* time passes, the UI thread runs the frame it is in to its end, and egui
\* serves a requested repaint; the user owes nothing
LiveSpec ==
    /\ Init
    /\ [][LiveNext]_vars
    /\ WF_vars(Tick)
    /\ WF_vars(RepaintFrame)
    /\ WF_vars(SaveLock)
    /\ WF_vars(\E dir_ok \in BOOLEAN, create_ok \in BOOLEAN : SaveIO(dir_ok, create_ok))
    /\ WF_vars(EndFrame)

\* ===================================================================== claims
\* the Session Controller's state, as the fields encode it
Controller ==
    IF ~recording THEN "Idle" ELSE IF timer_complete THEN "Recording" ELSE "Countdown"

\* a step of the UI thread
UiStep == ui_pc' # ui_pc

\* what a frame that starts nothing and stops nothing leaves alone
SessionUntouched ==
    /\ recording' = recording
    /\ start_time' = start_time
    /\ activity_data' = activity_data
    /\ logs' = logs
    /\ sampler' = sampler
    /\ files' = files
    /\ save_calls' = save_calls

\* C1: a "Create Task" click while the task name is empty starts nothing: in
\* both steps of the frame that handles it recording stays false, start_time,
\* timer_complete, the Arc, every log and the status stay as they were, and no
\* thread is spawned.
C1_EmptyNameNeverStarts ==
    [][/\ (ui_pc = "idle" /\ UiStep /\ ~recording /\ clicked' /\ task_name' = <<>>)
            => (SessionUntouched /\ ~recording' /\ timer_complete' = timer_complete
                /\ status' = status)
       /\ (ui_pc = "timer" /\ UiStep /\ ~recording /\ clicked /\ task_name = <<>>
              /\ branch = "none")
            => (SessionUntouched /\ ~recording' /\ timer_complete' = timer_complete
                /\ status' = status)]_vars

\* C1 witness: the frame of a "Create Task" click with an empty name has run its
\* button code and the tracker is still idle.
C1_Witness ==
    ui_pc = "timer" /\ clicked /\ branch = "none" /\ ~recording /\ task_name = <<>>

\* C2: an "End Task" click handled while fewer than 5 whole seconds have elapsed
\* since start_time leaves recording true, does not call save_activity_data,
\* creates no file, and leaves start_time, the Arc and the logs alone, in both
\* steps of its frame.
C2_PrematureStopKeepsRecording ==
    [][/\ (ui_pc = "idle" /\ UiStep /\ recording /\ clicked' /\ start_time # <<>>
              /\ Elapsed(start_time, clock) < DelaySecs)
            => (SessionUntouched /\ recording' /\ ui_pc' = "timer")
       /\ (ui_pc = "timer" /\ UiStep /\ branch = "premature")
            => (SessionUntouched /\ recording' /\ ui_pc' = "idle")]_vars

\* C2 witness: a premature "End Task" click has been handled and the session is
\* still recording, with no file written.
C2_Witness ==
    ui_pc = "timer" /\ branch = "premature" /\ clicked /\ recording /\ files = <<>>

\* C3 (as claimed): at the end of the frame that handled a premature "End Task"
\* click the status line shows "Please wait for timer to complete." and the
\* session is still active.
C3_NotReadyShown ==
    [][(ui_pc = "timer" /\ branch = "premature" /\ ui_pc' = "idle")
          => (status'.msg = MsgNotReady /\ recording')]_vars

\* timestamps never decrease along a log
Sorted(data) ==
    \A i, j \in 1..Len(data) : i < j => data[i].timestamp <= data[j].timestamp

\* ------------------------------------------------ reading a written file back
\* s split at every c: the fields between the separators ("" gives one empty
\* field)
RECURSIVE SplitOn(_, _)
SplitOn(s, c) ==
    IF s = <<>> THEN << <<>> >>
    ELSE LET rest == SplitOn(Tail(s), c)
         IN  IF Head(s) = c THEN << <<>> >> \o rest
             ELSE << <<Head(s)>> \o rest[1] >> \o Tail(rest)

\* the number a string of decimal digits denotes
RECURSIVE ParseDec(_)
ParseDec(s) ==
    IF s = <<>> THEN 0
    ELSE ParseDec(SubSeq(s, 1, Len(s) - 1)) * 10
           + (CHOOSE d \in 0..9 : DigitChars[d + 1] = s[Len(s)])

\* the integer a string denotes, with an optional leading minus sign
ParseI32(s) == IF s # <<>> /\ s[1] = "-" THEN 0 - ParseDec(Tail(s)) ELSE ParseDec(s)

\* the key names of a double-quoted keys field: what is between the quotes,
\* split on '+'; nothing between the quotes is no key
ParseKeys(field) ==
    LET inner == SubSeq(field, 2, Len(field) - 1)
    IN  IF inner = <<>> THEN <<>> ELSE SplitOn(inner, "+")

\* the record a data row denotes: its four comma-separated fields
ParseRow(line) ==
    LET f == SplitOn(line, ",")
    IN  [timestamp |-> ParseDec(f[1]), mouse_x |-> ParseI32(f[2]),
         mouse_y |-> ParseI32(f[3]), keys_pressed |-> ParseKeys(f[4])]

\* ----------------------------------------- the writer on a range of logs
\* the records of the logs written: timestamps of up to three digits, negative
\* and positive coordinates, no key, one key, two keys
CsvRecords ==
    {[timestamp |-> t, mouse_x |-> x, mouse_y |-> y, keys_pressed |-> k] :
        t \in (CsvStart + DelaySecs)..(CsvStart + DelaySecs + MaxCsvTime),
        x \in {-3, 12}, y \in {0, -10},
        k \in {<<>>, <<KeyA>>, <<KeyLShift, KeyA>>}}

\* the logs a sampler can have built from them: timestamps in clock order
CsvLogs ==
    {data \in UNION {[1..n -> CsvRecords] : n \in 0..MaxCsvLen} : Sorted(data)}

\* a session started at CsvStart whose sampler has pushed one of CsvLogs, at the
\* point where an honoured "End Task" click calls save_activity_data
CsvInit ==
    /\ task_name = <<"a", " ", "b">>
    /\ status = Text(MsgInProgress)
    /\ recording = TRUE
    /\ start_time = <<CsvStart>>
    /\ activity_data = 1
    /\ timer_complete = TRUE
    /\ is_macos \in BOOLEAN
    /\ permission_checked = is_macos
    /\ \E data \in CsvLogs :
          /\ logs = [l \in LogIds |-> IF l = 1 THEN data ELSE <<>>]
          /\ writers = [l \in LogIds |-> IF l = 1 /\ data # <<>> THEN {1} ELSE {}]
    /\ lock = [l \in LogIds |-> "free"]
    /\ sampler = [i \in SamplerIds |->
                    IF i = 1
                    THEN [pc |-> "sleep", log |-> 1,
                          wake |-> CsvStart + DelaySecs + MaxCsvTime,
                          record |-> NoRecord]
                    ELSE [pc |-> "none", log |-> 0, wake |-> 0, record |-> NoRecord]]
    /\ ui_pc = "save_lock"
    /\ first_frame = FALSE
    /\ clock = CsvStart + DelaySecs + MaxCsvTime
    /\ files = <<>>
    /\ clicked = TRUE
    /\ branch = "honoured"
    /\ outcome = "none"
    /\ save_calls = [k \in 0..MaxSessions |-> 0]
    /\ repaint = FALSE
    /\ session_name = <<"a", " ", "b">>

\* the rest of the frame: the writer, then the countdown block
CsvNext ==
    \/ SaveLock
    \/ \E dir_ok \in BOOLEAN, create_ok \in BOOLEAN : SaveIO(dir_ok, create_ok)
    \/ EndFrame

CsvSpec == CsvInit /\ [][CsvNext]_vars

\* C7: CSV round trip: a written file is the header row followed by one data
\* row per record of the log, in log order, and reading each data row back
\* (timestamp, mouse_x, mouse_y, the keys between the quotes split on '+')
\* gives the record it was written from, a record with no key included.
C7_CsvRoundTrip ==
    \A i \in 1..Len(files) :
        LET data == logs[files[i].log]
            lines == files[i].lines
        IN  /\ Len(lines) = Len(data) + 1
            /\ lines[1] = CsvHeader
            /\ \A j \in 1..Len(data) : ParseRow(lines[j + 1]) = data[j]

\* C7 witness: a file has been written from a log whose first record has no key
\* and whose second has two keys and a negative coordinate.
C7_Witness ==
    /\ Len(files) = 1
    /\ Len(files[1].lines) = 3
    /\ logs[1][1].keys_pressed = <<>>
    /\ logs[1][2].keys_pressed = <<KeyLShift, KeyA>>
    /\ logs[1][2].mouse_x < 0
    /\ logs[1][1].timestamp < logs[1][2].timestamp

\* the last file created
LastFile == files[Len(files)]

\* C4 (as claimed): at the end of the frame of an honoured stop the status line
\* reports the writer's outcome: the saved message with the path of the file
\* just written, "Could not find Downloads directory." when the directory did
\* not resolve, "Failed to create output file." when File::create failed; and
\* after either failure it does not say the recording was saved.
C4_StatusReportsOutcome ==
    [][(ui_pc = "timer" /\ branch = "honoured" /\ ui_pc' = "idle")
          => /\ outcome = "written"
                  => (status'.msg \in {MsgSaved, MsgSavedMac}
                      /\ status'.path = LastFile.path)
             /\ outcome = "nodir" => status'.msg = MsgNoDir
             /\ outcome = "nofile" => status'.msg = MsgNoFile
             /\ outcome \in {"nodir", "nofile"} => status'.msg # MsgCompleted]_vars

\* C5 (as claimed): an honoured stop that finds the log empty creates no file,
\* and the status line at the end of its frame is "No activity data recorded.".
C5_EmptyLogReported ==
    [][/\ (ui_pc = "save_io" /\ UiStep /\ logs[activity_data] = <<>>)
            => files' = files
       /\ (ui_pc = "timer" /\ branch = "honoured" /\ outcome = "empty"
              /\ ui_pc' = "idle")
            => status'.msg = MsgNoData]_vars

\* the files the k-th session has created
FilesOf(k) == {i \in 1..Len(files) : files[i].session = k}

\* C6: every session produces at most one output file: save_activity_data runs
\* at most once between two accepted starts, each session has created at most
\* one file, and only the writer's step of an honoured stop calls the writer
\* or creates a file.
C6_AtMostOneFile ==
    /\ [](\A k \in 0..MaxSessions : save_calls[k] <= 1 /\ Cardinality(FilesOf(k)) <= 1)
    /\ [][/\ files' # files
               => (ui_pc = "save_io" /\ branch = "honoured"
                   /\ Len(files') = Len(files) + 1)
          /\ save_calls' # save_calls
               => (ui_pc = "save_lock" /\ branch = "honoured")]_vars

\* C6 witness: the first session wrote its file, a second session has been
\* started and is active, and there is still one file.
C6_Witness ==
    /\ Cardinality(Spawned) = 2
    /\ recording
    /\ Len(files) = 1
    /\ save_calls[1] = 1

\* the threads whose Arc points at log l
SamplersOf(l) == {i \in Spawned : sampler[i].log = l}

\* C8: no two sessions share a log: no log has two samplers, the only thread
\* holding the active session's log (and the only one that has pushed to it) is
\* the one the latest start spawned, every file was read from a log only its own
\* session's sampler has pushed to, and an accepted start points the Arc at an
\* empty log no thread holds.
C8_NoSharedLog ==
    /\ [](/\ \A l \in LogIds : Cardinality(SamplersOf(l)) <= 1
          /\ SamplersOf(activity_data) \subseteq {Cardinality(Spawned)}
          /\ writers[activity_data] \subseteq {Cardinality(Spawned)}
          /\ \A i \in 1..Len(files) : writers[files[i].log] \subseteq {files[i].session})
    /\ [][(ui_pc = "idle" /\ UiStep /\ ~recording /\ recording')
             => /\ activity_data' # activity_data
                /\ logs'[activity_data'] = <<>>
                /\ SamplersOf(activity_data') = {}
                /\ writers[activity_data'] = {}]_vars

\* C8 witness: a second session is active with its own sampler, the first
\* session's file is written, and the first session's sampler has pushed to the
\* first session's log and only to it.
C8_Witness ==
    /\ Cardinality(Spawned) = 2
    /\ recording
    /\ sampler[2].log = activity_data
    /\ sampler[1].log # activity_data
    /\ Len(files) = 1
    /\ writers[sampler[1].log] = {1}
    /\ Len(logs[sampler[1].log]) = MaxLog

\* C9: with a clock that never goes back, every log is always in non-decreasing
\* timestamp order although the timestamp is read before the lock is taken, and
\* a change of a log is an append: one record more, the earlier records as they
\* were.
C9_LogsSorted ==
    /\ [](\A l \in LogIds : Sorted(logs[l]))
    /\ [][\A l \in LogIds :
             logs'[l] # logs[l]
               => /\ Len(logs'[l]) = Len(logs[l]) + 1
                  /\ SubSeq(logs'[l], 1, Len(logs[l])) = logs[l]]_vars

\* C9 witness: a log holds two records whose timestamps were read in different
\* seconds, and its sampler has just pushed the second.
C9_Witness ==
    \E l \in LogIds :
        /\ Len(logs[l]) = 2
        /\ logs[l][1].timestamp < logs[l][2].timestamp
        /\ \E i \in SamplersOf(l) : sampler[i].pc = "sleep" /\ sampler[i].wake = clock

\* C10 (as claimed): the controller only moves Idle -> Countdown -> Recording ->
\* Idle, never from Countdown (recording, ~timer_complete) straight to Idle:
\* every honoured stop finds timer_complete set.
C10_StopOnlyFromRecording ==
    [][Controller' # Controller
          => <<Controller, Controller'>> \in
                {<<"Idle", "Countdown">>, <<"Countdown", "Recording">>,
                 <<"Recording", "Idle">>}]_vars

\* C10 (amended): the controller moves Idle -> Countdown -> Recording -> Idle, or
\* Countdown -> Idle when the stop is handled before any frame has run the
\* countdown block since the delay elapsed; it leaves Countdown, to Recording or
\* to Idle, only once 5 whole seconds have elapsed since start_time, and goes to
\* Idle only by an honoured stop.
C10_StopOnlyAfterDelay ==
    [][Controller' # Controller
          => /\ <<Controller, Controller'>> \in
                   {<<"Idle", "Countdown">>, <<"Countdown", "Recording">>,
                    <<"Recording", "Idle">>, <<"Countdown", "Idle">>}
             /\ Controller' \in {"Recording", "Idle"}
                   => (start_time # <<>> /\ Elapsed(start_time, clock) >= DelaySecs)
             /\ Controller' = "Idle" => (ui_pc = "save_io" /\ branch = "honoured")]_vars

\* C10 witness: an honoured stop has ended a session whose timer_complete was
\* never set.
C10_Witness ==
    ui_pc = "timer" /\ branch = "honoured" /\ ~recording /\ ~timer_complete

\* C11: Countdown -> Recording is automatic: a session in Countdown (recording,
\* timer_complete not set) is always followed, with no user input needed, by
\* timer_complete set and "Recording in progress..." shown, unless a stop is
\* honoured first; and every frame that ends in Countdown with the delay still
\* running has requested a repaint.
C11_CountdownEnds ==
    /\ (recording /\ ~timer_complete)
          ~> (~recording \/ (timer_complete /\ status.msg = MsgInProgress))
    /\ [][(ui_pc = "timer" /\ ui_pc' = "idle" /\ status'.msg = MsgCountdown)
             => repaint']_vars

\* C11 witness: a started session has reached Recording and shows "Recording in
\* progress...".
C11_Witness ==
    /\ ui_pc = "idle"
    /\ recording
    /\ timer_complete
    /\ status.msg = MsgInProgress
    /\ ~repaint

\* what save_activity_data can have done when it returns
SaveOutcomes == {"empty", "nodir", "nofile", "written"}

\* C12: an "End Task" click handled while recording with 5 or more whole seconds
\* elapsed since start_time is honoured: its frame calls save_activity_data,
\* which runs once, and clears recording when the writer returns, whichever of
\* its four outcomes the writer had; the frame ends with recording false and
\* one call of the writer for the session.
C12_StopHonoured ==
    /\ []((ui_pc = "timer" /\ branch = "honoured")
            => /\ ~recording
               /\ save_calls[Cardinality(Spawned)] = 1
               /\ outcome \in SaveOutcomes)
    /\ [][/\ (ui_pc = "idle" /\ UiStep /\ recording /\ clicked' /\ start_time # <<>>
                /\ Elapsed(start_time, clock) >= DelaySecs)
              => (ui_pc' = "save_lock" /\ branch' = "honoured"
                  /\ save_calls[Cardinality(Spawned)] = 0)
          /\ (ui_pc = "save_lock" /\ UiStep)
              => (ui_pc' = "save_io"
                  /\ save_calls' = [save_calls EXCEPT ![Cardinality(Spawned)] = 1])
          /\ (ui_pc = "save_io" /\ UiStep)
              => (ui_pc' = "timer" /\ ~recording' /\ outcome' \in SaveOutcomes
                  /\ save_calls' = save_calls)
          /\ (ui_pc = "timer" /\ UiStep /\ branch = "honoured")
              => (ui_pc' = "idle" /\ ~recording' /\ save_calls' = save_calls)]_vars

\* C12 witness: a stop was honoured, the writer ran once and could not resolve
\* the directory, and recording is cleared within the frame.
C12_Witness ==
    /\ ui_pc = "timer"
    /\ branch = "honoured"
    /\ outcome = "nodir"
    /\ ~recording
    /\ save_calls[Cardinality(Spawned)] = 1
    /\ Elapsed(start_time, clock) = DelaySecs

\* C13: samplers are never stopped and accumulate one per session: an accepted
\* start adds exactly one thread and no other step changes the set of threads
\* (so the threads alive are as many as the accepted starts, and never fewer
\* than before); no thread is spawned while recording is set, and the active
\* session has exactly one sampler; a thread keeps the log it was spawned with
\* and the writer's steps leave every thread as it was, so the sampler of a
\* session whose file is written is still alive on that session's log.
C13_SamplersAccumulate ==
    /\ [](/\ recording => Cardinality(SamplersOf(activity_data)) = 1
          /\ \A i \in 1..Len(files) :
                /\ files[i].session \in Spawned
                /\ sampler[files[i].session].log = files[i].log)
    /\ [][/\ Spawned \subseteq Spawned'
          /\ (ui_pc = "idle" /\ UiStep /\ ~recording /\ clicked' /\ task_name' # <<>>)
              => Cardinality(Spawned') = Cardinality(Spawned) + 1
          /\ ~(ui_pc = "idle" /\ UiStep /\ ~recording /\ clicked' /\ task_name' # <<>>)
              => Spawned' = Spawned
          /\ recording => Spawned' = Spawned
          /\ \A i \in Spawned : sampler'[i].log = sampler[i].log
          /\ ui_pc \in {"save_lock", "save_io"} /\ UiStep => sampler' = sampler]_vars

\* C13 witness: the first session's stop was honoured and its file written, the
\* tracker is idle, and that session's sampler has since appended another record
\* to the log the file was read from.
C13_Witness ==
    /\ Len(files) = 1
    /\ ~recording
    /\ Cardinality(Spawned) = 1
    /\ Len(logs[files[1].log]) > Len(files[1].lines) - 1
    /\ writers[files[1].log] = {files[1].session}

\* C14: the shared log is a mutually-exclusive region: only the writer between
\* its lock() and its return holds a mutex for more than one step, and it holds
\* the active session's; no log changes while its mutex is held, so a sampler's
\* push never falls between the writer's lock() and the end of its read; and the
\* file the writer creates has one data row per record the log held when the
\* lock was taken, in order, each row reading back as its record.
C14_LogMutualExclusion ==
    /\ [](\A l \in LogIds :
             lock[l] = "ui" => (l = activity_data /\ ui_pc = "save_io"))
    /\ [][/\ \A l \in LogIds : lock[l] = "ui" => logs'[l] = logs[l]
          /\ \A i \in Spawned :
                (sampler[i].pc = "lock" /\ sampler'[i].pc = "sleep")
                   => lock[sampler[i].log] = "free"
          /\ files' # files
                => LET data == logs[activity_data]
                       lines == LastFile'.lines
                   IN  /\ lock[activity_data] = "ui"
                       /\ Len(lines) = Len(data) + 1
                       /\ \A j \in 1..Len(data) : ParseRow(lines[j + 1]) = data[j]]_vars

\* C14 witness: the writer holds the mutex of the active session's log, which
\* holds one record, while that session's sampler has its next record ready
\* and waits for the mutex.
C14_Witness ==
    /\ ui_pc = "save_io"
    /\ lock[activity_data] = "ui"
    /\ Len(logs[activity_data]) = 1
    /\ \E i \in SamplersOf(activity_data) : sampler[i].pc = "lock"

\* C15 (as claimed): the writer holds the mutex only to read the log: the step in
\* which it resolves the output directory, creates the file and writes the rows
\* (reached with a log that is not empty) runs with the mutex of the log free,
\* so no sampler waits for it during the file I/O.
C15_NoLockDuringFileIO ==
    [][(ui_pc = "save_io" /\ UiStep /\ logs[activity_data] # <<>>)
          => /\ lock[activity_data] = "free"
             /\ \A i \in SamplersOf(activity_data) :
                   sampler[i].pc = "lock" => LockFree(sampler[i].log)]_vars

\* C16 (as claimed): the writer drains the log: when save_activity_data has
\* written the records of a log that was not empty, that log is empty.
C16_WriterDrainsLog ==
    [][files' # files => logs'[activity_data] = <<>>]_vars

\* C16 (amended): the writer only reads the log: the steps of save_activity_data
\* leave every log as it was, so after a file is written its log still holds
\* the records that were written; every file's data rows are the rows of the
\* first records of its log, which grows only by the sampler's later appends.
C16_WriterKeepsLog ==
    /\ [](\A i \in 1..Len(files) :
             LET data == logs[files[i].log]
                 n == Len(files[i].lines) - 1
             IN  /\ n >= 1
                 /\ Len(data) >= n
                 /\ CsvLines(SubSeq(data, 1, n)) = files[i].lines)
    /\ [][(ui_pc \in {"save_lock", "save_io"} /\ UiStep) => logs' = logs]_vars

\* C16 witness: the writer has just written a file and the log it read still
\* holds exactly the records written.
C16_Witness ==
    /\ ui_pc = "timer"
    /\ outcome = "written"
    /\ logs[activity_data] # <<>>
    /\ LastFile.log = activity_data
    /\ Len(logs[activity_data]) = Len(LastFile.lines) - 1

\* C17: the sampler runs on a delay: every record in the log of the latest
\* session, and the record its sampler is about to push, was read 5 or more
\* seconds after that session's start_time, so while the session is in
\* Countdown with fewer than 5 whole seconds elapsed its log is empty and its
\* sampler has read nothing.
C17_NoRecordBeforeDelay ==
    start_time # <<>>
      => /\ \A j \in 1..Len(logs[activity_data]) :
               logs[activity_data][j].timestamp >= start_time[1] + DelaySecs
         /\ \A i \in SamplersOf(activity_data) :
               sampler[i].pc = "lock"
                 => sampler[i].record.timestamp >= start_time[1] + DelaySecs
         /\ (recording /\ Elapsed(start_time, clock) < DelaySecs)
               => /\ logs[activity_data] = <<>>
                  /\ \A i \in SamplersOf(activity_data) : sampler[i].pc = "sleep"

\* C17 witness: the active session's sampler has pushed its first record, read
\* in the second the delay ended.
C17_Witness ==
    /\ recording
    /\ start_time # <<>>
    /\ Len(logs[activity_data]) = 1
    /\ logs[activity_data][1].timestamp = start_time[1] + DelaySecs

\* C18 (as claimed): every honoured stop finds at least one record: whenever the
\* writer has been called, the session's log is not empty.
C18_StopFindsRecord ==
    ui_pc = "save_io" => logs[activity_data] # <<>>

\* C18 (amended): an honoured stop can find the log empty (the stop is accepted
\* from 5 whole seconds elapsed, the sampler's first push comes no earlier than
\* that and as much later as the scheduler lets it); the writer then creates no
\* file.  A file is created exactly when the log holds a record, the directory
\* resolves and the file can be created, and it has a data row.
C18_FileIffRecords ==
    [][(ui_pc = "save_io" /\ UiStep)
          => /\ logs[activity_data] = <<>> <=> outcome' = "empty"
             /\ logs[activity_data] = <<>> => files' = files
             /\ files' # files <=> outcome' = "written"
             /\ files' # files => Len(LastFile'.lines) = Len(logs[activity_data]) + 1]_vars

\* C18 witness: a stop was honoured with 5 whole seconds elapsed, the writer
\* found the log empty and no file exists.
C18_Witness ==
    /\ ui_pc = "timer"
    /\ branch = "honoured"
    /\ outcome = "empty"
    /\ logs[activity_data] = <<>>
    /\ files = <<>>
    /\ Elapsed(start_time, clock) >= DelaySecs

\* C19 (as claimed): the file is named after the task name the session was
\* started with, which is not empty: the path of a created file is the
\* directory, that name with '_' for ' ', '_', the time and ".csv", whatever
\* the text field holds at the stop.
C19_FileNamedAtStart ==
    [][files' # files
          => /\ session_name # <<>>
             /\ LastFile'.path = FilePath(DownloadDir, Filename(session_name, clock))]_vars

\* C20: at the end of every frame with recording set, timer_complete not set
\* and e < 5 whole seconds elapsed since start_time the status is "Recording
\* will start in N seconds..." with N = 5 - e; a status showing the countdown
\* always has N from 1 to 5.
C20_CountdownShown ==
    /\ [](status.msg = MsgCountdown => status.n \in 1..DelaySecs)
    /\ [][(ui_pc = "timer" /\ UiStep /\ recording /\ ~timer_complete
             /\ start_time # <<>> /\ Elapsed(start_time, clock) < DelaySecs)
            => status' = CountdownText(DelaySecs - Elapsed(start_time, clock))]_vars

\* C20 witness: a frame has ended in the last second of the countdown and shows
\* one second remaining.
C20_Witness ==
    /\ ui_pc = "idle"
    /\ recording
    /\ ~timer_complete
    /\ Elapsed(start_time, clock) = DelaySecs - 1
    /\ status = CountdownText(1)

====
